---------------------------- MODULE Spec2Model ----------------------------
(***************************************************************************)
(* A model of pretty_scripts/orla_to_ascii.py: the command-line entry      *)
(* point, the conversion function orla_to_ascii and the colour             *)
(* quantisation rgb_to_ansi.                                               *)
(*                                                                         *)
(* Text is modelled as a sequence of one-character strings; the token ESC  *)
(* stands for the single byte 0x1B.  Python floats are IEEE-754 doubles:   *)
(* a positive double is the record [e, m] whose value is                   *)
(*      m[1]*2^e + m[2]*2^(e-1) + ... + m[53]*2^(e-52),   m[1] = 1,        *)
(* and every float operation of the source is computed exactly and then    *)
(* rounded to nearest, ties to even, as the hardware does.                 *)
(***************************************************************************)
EXTENDS Integers, Sequences, FiniteSets, TLC

VARIABLES
    argv,        \* sys.argv; argv[1] is the script name (Python's sys.argv[0])
    fs,          \* what the file named on the command line decodes to
    pc,          \* position in the script
    image_path,  \* sys.argv[1] once read
    width,       \* requested output width once parsed
    img,         \* the PIL image held by orla_to_ascii
    height,      \* output rows computed at line 35
    x, y,        \* loop counters of lines 50 and 52
    line,        \* the row being built
    output,      \* the finished rows
    ascii_art,   \* the text returned by orla_to_ascii
    stdout,      \* characters written to standard output
    stderr,      \* kind of diagnostic written to standard error
    exit_code,   \* process exit status
    exc,         \* the exception that ended the run, "none" otherwise
    sample,      \* a single pixel handed to the per-pixel classification
    sample_cell  \* its cell, "none" before classification

vars == <<argv, fs, pc, image_path, width, img, height, x, y, line, output,
          ascii_art, stdout, stderr, exit_code, exc, sample, sample_cell>>

------------------------------------------------------------------------------
(* Bounds of the explored inputs.                                          *)

MaxSrcW == 2
MaxSrcH == 2
MaxWidthArg == 3

------------------------------------------------------------------------------
(* IEEE-754 double arithmetic, as far as the source uses it.               *)

DoubleBits == 53

Last(s) == s[Len(s)]
Front(s) == SubSeq(s, 1, Len(s) - 1)

Zeros(n) == [i \in 1..n |-> 0]

RECURSIVE ToBits(_)
ToBits(n) == IF n = 0 THEN <<>> ELSE ToBits(n \div 2) \o <<n % 2>>

RECURSIVE BitsToInt(_)
BitsToInt(bs) == IF bs = <<>> THEN 0 ELSE 2 * BitsToInt(Front(bs)) + Last(bs)

RECURSIVE Pow2(_)
Pow2(n) == IF n = 0 THEN 1 ELSE 2 * Pow2(n - 1)

\* 2^n mod d, by repeated squaring (d < 2^15).
RECURSIVE Pow2Mod(_, _)
Pow2Mod(n, d) ==
    IF n = 0 THEN 1 % d
    ELSE LET h == Pow2Mod(n \div 2, d)
             sq == (h * h) % d
         IN  IF n % 2 = 0 THEN sq ELSE (2 * sq) % d

\* bs + 1 for a bit string bs; one bit longer when bs is all ones.
IncBits(bs) ==
    LET zeroAt == {i \in 1..Len(bs) : bs[i] = 0}
    IN  IF zeroAt = {} THEN <<1>> \o Zeros(Len(bs))
        ELSE LET p == CHOOSE i \in zeroAt : \A j \in zeroAt : j <= i
             IN  [i \in 1..Len(bs) |-> IF i < p THEN bs[i] ELSE IF i = p THEN 1 ELSE 0]

\* Round an exact binary expansion bs (bs[1] = 1 of weight 2^e, sticky: a
\* non-zero tail beyond bs) to a double: nearest, ties to even.
RoundBits(bs, e, sticky) ==
    IF Len(bs) <= DoubleBits
    THEN [e |-> e, m |-> bs \o Zeros(DoubleBits - Len(bs))]
    ELSE LET head == SubSeq(bs, 1, DoubleBits)
             guard == bs[DoubleBits + 1]
             rest == sticky \/ \E i \in (DoubleBits + 2)..Len(bs) : bs[i] = 1
             up == guard = 1 /\ (rest \/ head[DoubleBits] = 1)
             inc == IncBits(head)
         IN  IF ~up THEN [e |-> e, m |-> head]
             ELSE IF Len(inc) > DoubleBits
                  THEN [e |-> e + 1, m |-> SubSeq(inc, 1, DoubleBits)]
                  ELSE [e |-> e, m |-> inc]

RECURSIVE Log2Floor(_, _)
Log2Floor(num, den) == IF num < 2 * den THEN 0 ELSE 1 + Log2Floor(num, 2 * den)

RECURSIVE Log2Lift(_, _)
Log2Lift(num, den) == IF num >= den THEN 0 ELSE 1 + Log2Lift(2 * num, den)

\* num / den for integers num, den > 0 (Python's true division): the
\* quotient is scaled into [1, 2), its first DoubleBits + 1 bits are taken by
\* long division and the remainder decides the rounding.  Bit i + 1 of n1/d1
\* is 1 iff twice the remainder of n1 * 2^(i-1) reaches d1.
FloatDiv(num, den) ==
    LET up == Log2Floor(num, den)
        down == Log2Lift(num, den)
        n1 == num * Pow2(down)
        d1 == den * Pow2(up)
        rem(i) == ((n1 % d1) * Pow2Mod(i, d1)) % d1
        bs == [i \in 1..(DoubleBits + 1) |->
                 IF i = 1 THEN 1 ELSE IF 2 * rem(i - 2) >= d1 THEN 1 ELSE 0]
    IN  RoundBits(bs, up - down, rem(DoubleBits) # 0)

\* The 13-bit limb j of a bit string m, counted from the least significant end.
Limb(m, j) ==
    LET hi == Len(m) - 13 * (j - 1)
        lo == IF hi - 12 < 1 THEN 1 ELSE hi - 12
    IN  IF hi < 1 THEN 0 ELSE BitsToInt(SubSeq(m, lo, hi))

Pad13(v) == LET b == ToBits(v) IN Zeros(13 - Len(b)) \o b

\* k * d for an integer 0 < k < 2^17 and a positive double d: the exact
\* product of the mantissa, limb by limb with carries, then rounded.
FloatMulInt(k, d) ==
    LET B == 8192
        t1 == k * Limb(d.m, 1)
        t2 == k * Limb(d.m, 2) + t1 \div B
        t3 == k * Limb(d.m, 3) + t2 \div B
        t4 == k * Limb(d.m, 4) + t3 \div B
        t5 == k * Limb(d.m, 5) + t4 \div B
        prod == ToBits(t5) \o Pad13(t4 % B) \o Pad13(t3 % B)
                   \o Pad13(t2 % B) \o Pad13(t1 % B)
    IN  RoundBits(prod, d.e + Len(prod) - DoubleBits, FALSE)

\* d * 0.5: exact, the exponent drops by one.
FloatHalf(d) == [e |-> d.e - 1, m |-> d.m]

\* int(d) for a positive double d: the integer part.
FloatTrunc(d) == IF d.e < 0 THEN 0 ELSE BitsToInt(SubSeq(d.m, 1, d.e + 1))

------------------------------------------------------------------------------
(* Colour quantisation and the per-pixel classification.                   *)

TransparencyThreshold == 128
DefaultWidth == 40

\* ascii_chars, line 41: the three characters of the literal as the file
\* stores it (U+00E2, U+2013, U+02C6).
ascii_chars == <<"U+00E2", "U+2013", "U+02C6">>

\* int((c / 255.0) * 5), lines 20-22.
Cube(c) == IF c = 0 THEN 0 ELSE FloatTrunc(FloatMulInt(5, FloatDiv(c, 255)))

\* rgb_to_ansi with the red and green weights of the cube exchanged.
rgb_to_ansi_swapped(r, g, b) ==
    IF r = g /\ g = b /\ r < 8 THEN 16
    ELSE IF r = g /\ g = b /\ r > 248 THEN 231
    ELSE 16 + (Cube(r) * 6) + (Cube(g) * 36) + Cube(b)

\* rgb_to_ansi whose white case only catches pure white.
rgb_to_ansi_pure_white(r, g, b) ==
    IF r = g /\ g = b /\ r < 8 THEN 16
    ELSE IF r = g /\ g = b /\ r > 254 THEN 231
    ELSE 16 + (Cube(r) * 36) + (Cube(g) * 6) + Cube(b)

rgb_to_ansi(r, g, b) ==
    IF r = g /\ g = b /\ r < 8 THEN 16
    ELSE IF r = g /\ g = b /\ r > 248 THEN 231
    ELSE 16 + (Cube(r) * 36) + (Cube(g) * 6) + Cube(b)

\* Lines 62-73.  luminance is at most 255, so luminance * 0.3 / 255 * (len - 1)
\* is at most 0.3 * (len - 1) = 0.6 for the three-character palette: the
\* rounding of the float products cannot move it across an integer, and its
\* integer part is that of the exact value, computed here in thousandths.
char_idx(r, g, b) ==
    LET n == Len(ascii_chars)
        exact == ((299 * r + 587 * g + 114 * b) * 3 * (n - 1)) \div (1000 * 10 * 255)
    IN  IF exact < n - 1 THEN exact ELSE n - 1

\* Classify with the threshold itself counted as transparent.
ClassifyAlphaInclusive(p) ==
    IF p[4] <= TransparencyThreshold
    THEN [char |-> " ", ansi_code |-> 16]
    ELSE [char |-> ascii_chars[char_idx(p[1], p[2], p[3]) + 1],
          ansi_code |-> rgb_to_ansi(p[1], p[2], p[3])]

\* Classify drawing the glyph of a transparent pixel from the palette.
ClassifyTransparentGlyph(p) ==
    IF p[4] < TransparencyThreshold
    THEN [char |-> ascii_chars[1], ansi_code |-> 16]
    ELSE [char |-> ascii_chars[char_idx(p[1], p[2], p[3]) + 1],
          ansi_code |-> rgb_to_ansi(p[1], p[2], p[3])]

\* Lines 53-76: the cell of one RGBA pixel p = <<r, g, b, a>>.
Classify(p) ==
    IF p[4] < TransparencyThreshold
    THEN [char |-> " ", ansi_code |-> 16]
    ELSE [char |-> ascii_chars[char_idx(p[1], p[2], p[3]) + 1],
          ansi_code |-> rgb_to_ansi(p[1], p[2], p[3])]

NoCell == [char |-> "none", ansi_code |-> 0 - 1]

------------------------------------------------------------------------------
(* The classification applied to single pixels (specification SpecPixel).  *)

ChannelSamples ==
    {0, 50, 51, 101, 102, 152, 153, 154, 203, 204, 254, 255}
AlphaSamples == {0, 127, 128, 255}

PixelSamples ==
    {<<r, g, b, a>> : r \in ChannelSamples, g \in ChannelSamples,
                      b \in ChannelSamples, a \in AlphaSamples}
    \cup {<<v, v, v, a>> : v \in 0..255, a \in AlphaSamples}

Idle ==
    /\ argv = <<>> /\ fs = [ok |-> FALSE] /\ image_path = "" /\ width = 0
    /\ img = [ok |-> FALSE] /\ height = 0 /\ x = 0 /\ y = 0 /\ line = <<>>
    /\ output = <<>> /\ ascii_art = <<>> /\ stdout = <<>> /\ stderr = "none"
    /\ exit_code = 0 - 1 /\ exc = "none"

InitPixel ==
    /\ Idle
    /\ pc = "classify"
    /\ sample \in PixelSamples
    /\ sample_cell = NoCell

ClassifyPixel ==
    /\ pc = "classify"
    /\ sample_cell' = Classify(sample)
    /\ pc' = "classified"
    /\ UNCHANGED <<argv, fs, image_path, width, img, height, x, y, line, output,
                   ascii_art, stdout, stderr, exit_code, exc, sample>>

SpecPixel == InitPixel /\ [][ClassifyPixel]_vars

------------------------------------------------------------------------------
(* Text: decimal formatting and parsing, a cell's escape sequence, join.   *)

ESC == "ESC"
Digits == <<"0", "1", "2", "3", "4", "5", "6", "7", "8", "9">>

\* str(n) for an integer n, as the f-string of line 79 formats ansi_code.
RECURSIVE Decimal(_)
Decimal(n) ==
    IF n < 0 THEN <<"-">> \o Decimal(0 - n)
    ELSE IF n < 10 THEN <<Digits[n + 1]>>
    ELSE Decimal(n \div 10) \o <<Digits[(n % 10) + 1]>>

IsDigit(c) == \E d \in 1..10 : Digits[d] = c
DigitVal(c) == (CHOOSE d \in 1..10 : Digits[d] = c) - 1

RECURSIVE DigitsVal(_)
DigitsVal(s) == IF s = <<>> THEN 0 ELSE 10 * DigitsVal(Front(s)) + DigitVal(Last(s))

\* int(s), line 94: an optional minus sign and at least one digit, anything
\* else raises ValueError.
ParseInt(s) ==
    LET neg == s # <<>> /\ s[1] = "-"
        body == IF neg THEN Tail(s) ELSE s
    IN  IF body = <<>> \/ \E i \in 1..Len(body) : ~IsDigit(body[i])
        THEN [ok |-> FALSE, val |-> 0]
        ELSE [ok |-> TRUE, val |-> IF neg THEN 0 - DigitsVal(body) ELSE DigitsVal(body)]

\* Line 79: f"\033[38;5;{ansi_code}m{char}\033[0m".
CellText(c) ==
    <<ESC, "[", "3", "8", ";", "5", ";">> \o Decimal(c.ansi_code)
        \o <<"m", c.char, ESC, "[", "0", "m">>

\* Line 82: "\n".join(rows).
RECURSIVE Join(_)
Join(rows) ==
    IF rows = <<>> THEN <<>>
    ELSE IF Len(rows) = 1 THEN rows[1]
    ELSE Join(Front(rows)) \o <<"\n">> \o Last(rows)

------------------------------------------------------------------------------
(* Images and the two library calls made on them.                          *)

\* int(width * aspect_ratio * 0.5), lines 34-35, for an image of h rows and
\* w columns (h, w > 0).  int() truncates towards zero.
Height(wd, h, w) ==
    IF wd = 0 THEN 0
    ELSE LET mag == IF wd < 0 THEN 0 - wd ELSE wd
             t == FloatTrunc(FloatHalf(FloatMulInt(mag, FloatDiv(h, w))))
         IN  IF wd < 0 THEN 0 - t ELSE t

\* Nearest-neighbour sampling at the top-left corner of each output pixel.
NearestIndexCorner(i, src, dst) == (i * src) \div dst

\* Image.resize(..., NEAREST) samples the source at the centre of each output
\* pixel: output index i of dst reads source index floor((i + 0.5) * src / dst).
NearestIndex(i, src, dst) == ((2 * i + 1) * src) \div (2 * dst)

\* Line 38, for wd, ht >= 1.
Resized(im, wd, ht) ==
    [ok |-> TRUE, mode |-> im.mode, w |-> wd, h |-> ht,
     px |-> [c \in (0..(wd - 1)) \X (0..(ht - 1)) |->
               im.px[<<NearestIndex(c[1], im.w, wd), NearestIndex(c[2], im.h, ht)>>]]]

\* Lines 44-45: a source without an alpha channel becomes fully opaque.
ConvertRGBA(im) ==
    IF im.mode # "RGBA"
    THEN [im EXCEPT !.mode = "RGBA", !.px = [c \in DOMAIN im.px |-> im.px[c] \o <<255>>]]
    ELSE im

------------------------------------------------------------------------------
(* The inputs explored: command lines and the file the path names.         *)

Script == "orla_to_ascii.py"
Path == "logo.png"

Palette ==
    << <<0, 0, 0, 255>>, <<255, 255, 255, 255>>, <<0, 154, 0, 255>>,
       <<255, 0, 0, 255>>, <<0, 0, 0, 0>>, <<250, 250, 250, 127>> >>

\* The image of w columns and h rows whose pixels walk the palette from
\* entry seed in steps of stride, row by row.
MkImage(w, h, seed, stride, mode) ==
    [ok |-> TRUE, mode |-> mode, w |-> w, h |-> h,
     px |-> [c \in (0..(w - 1)) \X (0..(h - 1)) |->
               LET p == Palette[((seed + stride * (c[2] * w + c[1])) % Len(Palette)) + 1]
               IN  IF mode = "RGBA" THEN p ELSE SubSeq(p, 1, 3)]]

Undecodable == [ok |-> FALSE]

Images ==
    {MkImage(w, h, seed, stride, mode) :
        w \in 1..MaxSrcW, h \in 1..MaxSrcH, seed \in 0..(Len(Palette) - 1),
        stride \in {0, 1}, mode \in {"RGBA", "RGB"}}

DefaultRunImages ==
    {MkImage(w, h, 0, 1, "RGBA") : w \in 1..MaxSrcW, h \in 1..MaxSrcH}

TallImage == MkImage(11, 30, 0, 1, "RGBA")

WidthArgs == {Decimal(n) : n \in (0 - 1)..MaxWidthArg} \cup {<<"x">>}

Init ==
    /\ \/ argv = <<Script>> /\ fs = Undecodable
       \/ argv = <<Script, Path>> /\ fs \in DefaultRunImages \cup {Undecodable}
       \/ /\ argv \in {<<Script, Path, a>> : a \in WidthArgs}
          /\ fs \in Images \cup {Undecodable}
       \/ argv = <<Script, Path, Decimal(11)>> /\ fs = TallImage
    /\ pc = "main"
    /\ image_path = "" /\ width = 0 /\ img = Undecodable /\ height = 0
    /\ x = 0 /\ y = 0 /\ line = <<>> /\ output = <<>> /\ ascii_art = <<>>
    /\ stdout = <<>> /\ stderr = "none" /\ exit_code = 0 - 1 /\ exc = "none"
    /\ sample = <<0, 0, 0, 0>> /\ sample_cell = NoCell

------------------------------------------------------------------------------
(* The script, step by step.                                               *)

\* An uncaught exception: the interpreter prints a traceback on stderr and
\* exits with status 1.
Raise(e) ==
    /\ exc' = e
    /\ stderr' = "traceback"
    /\ exit_code' = 1
    /\ pc' = "exit"

\* Lines 86-94.  len(sys.argv) is Len(argv); sys.argv[1] is argv[2].
Main ==
    /\ pc = "main"
    /\ IF Len(argv) < 1
       THEN /\ stderr' = "usage" /\ exit_code' = 1 /\ pc' = "exit"
            /\ UNCHANGED <<exc, image_path, width>>
       ELSE IF Len(argv) < 2
       THEN Raise("IndexError") /\ UNCHANGED <<image_path, width>>
       ELSE IF Len(argv) > 2 /\ ~ParseInt(argv[3]).ok
       THEN Raise("ValueError") /\ image_path' = argv[2] /\ UNCHANGED width
       ELSE /\ image_path' = argv[2]
            /\ width' = IF Len(argv) > 2 THEN ParseInt(argv[3]).val ELSE DefaultWidth
            /\ pc' = "call"
            /\ UNCHANGED <<exc, stderr, exit_code>>
    /\ UNCHANGED <<argv, fs, img, height, x, y, line, output, ascii_art, stdout,
                   sample, sample_cell>>

\* Line 33: Image.open raises when the file is missing or not an image.
Open ==
    /\ pc = "call"
    /\ IF fs.ok
       THEN img' = fs /\ pc' = "opened" /\ UNCHANGED <<exc, stderr, exit_code>>
       ELSE Raise("DecodeError") /\ UNCHANGED img
    /\ UNCHANGED <<argv, fs, image_path, width, height, x, y, line, output,
                   ascii_art, stdout, sample, sample_cell>>

\* Lines 34-35.
ComputeHeight ==
    /\ pc = "opened"
    /\ height' = Height(width, img.h, img.w)
    /\ pc' = "resize"
    /\ UNCHANGED <<argv, fs, image_path, width, img, x, y, line, output, ascii_art,
                   stdout, stderr, exit_code, exc, sample, sample_cell>>

\* Lines 37-48.  Image.resize raises ValueError("height and width must be
\* > 0") when either requested dimension is below 1.
Resize ==
    /\ pc = "resize"
    /\ IF width < 1 \/ height < 1
       THEN Raise("ValueError") /\ UNCHANGED <<img, x, y, line, output>>
       ELSE /\ img' = ConvertRGBA(Resized(img, width, height))
            /\ output' = <<>> /\ line' = <<>> /\ x' = 0 /\ y' = 0
            /\ pc' = "loop"
            /\ UNCHANGED <<exc, stderr, exit_code>>
    /\ UNCHANGED <<argv, fs, image_path, width, height, ascii_art, stdout,
                   sample, sample_cell>>

\* Lines 52-79: one pass of the inner loop.
Cell ==
    /\ pc = "loop" /\ y < height /\ x < width
    /\ line' = line \o CellText(Classify(img.px[<<x, y>>]))
    /\ x' = x + 1
    /\ UNCHANGED <<argv, fs, pc, image_path, width, img, height, y, output,
                   ascii_art, stdout, stderr, exit_code, exc, sample, sample_cell>>

\* AppendLine that also writes the finished row to standard output.
AppendLineEcho ==
    /\ pc = "loop" /\ y < height /\ x = width
    /\ output' = Append(output, line)
    /\ stdout' = stdout \o line \o <<"\n">>
    /\ line' = <<>> /\ x' = 0 /\ y' = y + 1
    /\ UNCHANGED <<argv, fs, pc, image_path, width, img, height, ascii_art,
                   stderr, exit_code, exc, sample, sample_cell>>

\* Line 80, then lines 50-51 for the next row.
AppendLine ==
    /\ pc = "loop" /\ y < height /\ x = width
    /\ output' = Append(output, line)
    /\ line' = <<>> /\ x' = 0 /\ y' = y + 1
    /\ UNCHANGED <<argv, fs, pc, image_path, width, img, height, ascii_art,
                   stdout, stderr, exit_code, exc, sample, sample_cell>>

\* Line 82.
Return ==
    /\ pc = "loop" /\ y = height
    /\ ascii_art' = Join(output)
    /\ pc' = "print"
    /\ UNCHANGED <<argv, fs, image_path, width, img, height, x, y, line, output,
                   stdout, stderr, exit_code, exc, sample, sample_cell>>

\* Line 97, and the normal end of the script.
PrintArt ==
    /\ pc = "print"
    /\ stdout' = ascii_art \o <<"\n">>
    /\ exit_code' = 0
    /\ pc' = "exit"
    /\ UNCHANGED <<argv, fs, image_path, width, img, height, x, y, line, output,
                   ascii_art, stderr, exc, sample, sample_cell>>

Next ==
    \/ Main
    \/ Open
    \/ ComputeHeight
    \/ Resize
    \/ Cell
    \/ AppendLine
    \/ Return
    \/ PrintArt

Spec == Init /\ [][Next]_vars

------------------------------------------------------------------------------
(* Properties of the per-pixel classification (under SpecPixel).           *)

Classified == pc = "classified"
SampleOpaque == sample[4] >= 128
SampleGrey == sample[1] = sample[2] /\ sample[2] = sample[3]
CubeExact(c) == (c * 5) \div 255
CubeIndex(p) == 16 + CubeExact(p[1]) * 36 + CubeExact(p[2]) * 6 + CubeExact(p[3])

\* C1: a pixel with alpha < 128 becomes a space of colour index 16 whatever
\* its r, g, b; a pixel with alpha >= 128 takes its glyph from the palette
\* and its colour index from rgb_to_ansi(r, g, b).
C1_TransparentIsBlackSpace ==
    Classified =>
        /\ sample[4] < 128 => sample_cell = [char |-> " ", ansi_code |-> 16]
        /\ sample[4] >= 128 =>
              /\ sample_cell.char \in {ascii_chars[i] : i \in 1..Len(ascii_chars)}
              /\ sample_cell.char # " "
              /\ sample_cell.ansi_code = rgb_to_ansi(sample[1], sample[2], sample[3])

C1_Witness ==
    Classified /\ sample[4] < 128 /\ sample[1] = 255 /\ sample[2] = 0

\* C2 as stated: every opaque pixel other than pure black and pure white has
\* a colour index in 16..231 equal to 16 + r6*36 + g6*6 + b6 with
\* r6 = floor(r*5/255), g6 = floor(g*5/255), b6 = floor(b*5/255).
C2_CubeIndexExceptPureBlackWhite ==
    (/\ Classified /\ SampleOpaque
     /\ sample # <<0, 0, 0, sample[4]>>
     /\ sample # <<255, 255, 255, sample[4]>>)
        => /\ sample_cell.ansi_code \in 16..231
           /\ sample_cell.ansi_code = CubeIndex(sample)

\* C2 amended: the same for every opaque pixel that is neither pure black,
\* pure white nor a grey with 249 <= v <= 254; those greys get 231.
C2_CubeIndexExceptNearWhiteGrey ==
    (/\ Classified /\ SampleOpaque
     /\ sample # <<0, 0, 0, sample[4]>>
     /\ sample # <<255, 255, 255, sample[4]>>)
        => /\ sample_cell.ansi_code \in 16..231
           /\ IF SampleGrey /\ sample[1] \in 249..254
              THEN sample_cell.ansi_code = 231
              ELSE sample_cell.ansi_code = CubeIndex(sample)

C2_Witness ==
    Classified /\ SampleOpaque /\ sample[1] = 0 /\ sample[2] = 154 /\ sample[3] = 0
        /\ sample_cell.ansi_code = 34

\* C3: an opaque grey pixel of value v has colour index 16 when v < 8 and
\* 231 when v > 248; an opaque pixel whose r, g, b are not all equal is
\* untouched by the two special cases: it has its cube index.
C3_GreySpecialCases ==
    (Classified /\ SampleOpaque) =>
        /\ (SampleGrey /\ sample[1] < 8) => sample_cell.ansi_code = 16
        /\ (SampleGrey /\ sample[1] > 248) => sample_cell.ansi_code = 231
        /\ ~SampleGrey => sample_cell.ansi_code = CubeIndex(sample)

C3_Witness ==
    Classified /\ SampleOpaque /\ SampleGrey /\ sample[1] = 250
        /\ sample_cell.ansi_code = 231

------------------------------------------------------------------------------
(* Properties of the script (under Spec).                                  *)

\* orla_to_ascii has been entered with a parsed width.
Called ==
    \/ pc \in {"call", "opened", "resize", "loop", "print"}
    \/ pc = "exit" /\ (exc = "DecodeError" \/ img.ok)

\* Line 35 has been executed.
HeightComputed == img.ok /\ pc \in {"resize", "loop", "print", "exit"}

\* orla_to_ascii has returned its text.
Returned == pc = "print" \/ (pc = "exit" /\ exit_code = 0)

\* C4: for a source image of positive size and a width W > 0 the number of
\* rows is floor(W * srcHeight / (2 * srcWidth)), is never negative, and a
\* value of 0 raises no error.
C4_HeightIsFloorAndZeroAccepted ==
    (HeightComputed /\ width > 0) =>
        /\ height = (width * fs.h) \div (2 * fs.w)
        /\ height >= 0
        /\ height = 0 => exc = "none"

\* C5: a width W <= 0 is rejected with InvalidDimension before any
\* resampling step: the run gets no further than loading the image, and
\* ends with that error (or with the loader's) and without a text.
C5_NonPositiveWidthRejectedAtEntry ==
    (Called /\ width <= 0) =>
        \/ pc \in {"call", "opened"}
        \/ /\ pc = "exit"
           /\ exc \in {"InvalidDimension", "DecodeError"}
           /\ ascii_art = <<>> /\ stdout = <<>>

\* The text of row r of the target grid: its cells in column order.
RECURSIVE RowText(_, _)
RowText(r, n) ==
    IF n = 0 THEN <<>>
    ELSE RowText(r, n - 1) \o CellText(Classify(img.px[<<n - 1, r>>]))

\* The rendering of a grid of h rows and w columns.
GridText(h, w) == Join([r \in 1..h |-> RowText(r - 1, w)])

\* C6: for a target grid of H >= 0 rows and W > 0 columns the conversion
\* returns H lines joined by single newlines without a trailing one, each
\* line W cells in column order, each cell ESC[38;5;{n}m, one glyph, ESC[0m;
\* for H = 0 it returns the empty text.
C6_GridRenderedAsLines ==
    (HeightComputed /\ width > 0 /\ height >= 0) =>
        /\ pc = "exit" => exit_code = 0
        /\ Returned => ascii_art = GridText(height, width)
        /\ (Returned /\ height = 0) => ascii_art = <<>>

\* The part of C6 the code does satisfy: whenever a text is returned it is
\* the rendering of the target grid, which then has at least one row.
C6_ReturnedTextIsGrid ==
    Returned => height >= 1 /\ width >= 1 /\ ascii_art = GridText(height, width)

BlackSpaceCell ==
    <<ESC, "[", "3", "8", ";", "5", ";", "1", "6", "m", " ", ESC, "[", "0", "m">>

TransparentOneByOne ==
    /\ fs.ok /\ fs.w = 1 /\ fs.h = 1 /\ fs.mode = "RGBA"
    /\ fs.px[<<0, 0>>][4] = 0

ScaffoldImage ==
    /\ fs.ok /\ fs.w = 2 /\ fs.h = 2 /\ fs.mode = "RGBA"
    /\ fs.px[<<0, 0>>] = <<0, 0, 0, 255>>
    /\ fs.px[<<1, 0>>] = <<255, 255, 255, 255>>
    /\ fs.px[<<0, 1>>] = <<0, 154, 0, 255>>
    /\ fs.px[<<1, 1>>] = <<255, 0, 0, 255>>

OpaqueCell(n) == CellText([char |-> ascii_chars[1], ansi_code |-> n])

\* C8 as stated: the 2x2 scaffold image at width 2 yields height 1 and one
\* row of two cells classifying the top row: colour indices 16 and 231.
C8_ScaffoldSamplesTopRow ==
    (ScaffoldImage /\ Called /\ width = 2) =>
        /\ HeightComputed => height = 1
        /\ Returned => ascii_art = OpaqueCell(16) \o OpaqueCell(231)

\* C8 amended: it yields height 1 and one row of two cells classifying the
\* bottom row, whose pixels the resize samples: colour indices 34 and 196.
C8_ScaffoldSamplesBottomRow ==
    (ScaffoldImage /\ Called /\ width = 2) =>
        /\ HeightComputed => height = 1
        /\ Returned => ascii_art = OpaqueCell(34) \o OpaqueCell(196)

C8_Witness ==
    ScaffoldImage /\ width = 2 /\ pc = "exit" /\ exit_code = 0

\* C9: started without an image path the script takes the usage branch:
\* usage text on stderr, exit code 1, no image opened and no exception;
\* with a path and a successful conversion it exits with code 0.
C9_MissingPathTakesUsageBranch ==
    pc = "exit" =>
        /\ Len(argv) < 2 =>
              stderr = "usage" /\ exit_code = 1 /\ exc = "none" /\ ~img.ok
        /\ (Len(argv) >= 2 /\ exc = "none") => exit_code = 0

\* C10: a run that fails writes nothing to standard output, and standard
\* output is written only once every row of the grid is finished and
\* joined: it is either empty or the whole text.
C10_NoPartialOutput ==
    /\ (pc = "exit" /\ exit_code # 0) => stdout = <<>>
    /\ exc # "none" => stdout = <<>>
    /\ stdout # <<>> =>
          /\ pc = "exit" /\ exit_code = 0
          /\ y = height /\ Len(output) = height
          /\ stdout = Join(output) \o <<"\n">>

C10_Witness ==
    pc = "exit" /\ exit_code = 1 /\ exc = "ValueError" /\ img.ok /\ stdout = <<>>

==============================================================================
